---- MODULE Spec2Model ----
(***************************************************************************)
(* Model of src/src/brainkey.cc (opmsg): the deterministic "brainkey"      *)
(* replacement of EC_KEY_generate_key.                                     *)
(*                                                                         *)
(*   bk_RAND_bytes     keystream: PBKDF2 blocks salted with salt_cnt++     *)
(*   bk_bnrand         an integer of an exact bit length from the stream   *)
(*   bk_bnrand_range   rejection sampling of an integer in [0, range)      *)
(*   EC_KEY_generate_key  private scalar, public point, key object         *)
(*                                                                         *)
(* A thread's call is cut into steps at the accesses to the shared static  *)
(* salt_cnt (the read and the write of salt_cnt++); everything between two *)
(* accesses is local to the thread and belongs to the step that follows    *)
(* the access.  Strings are sequences of character codes.                  *)
(***************************************************************************)
EXTENDS Integers, Sequences, FiniteSets, TLC

(* ------------------------------ bounds --------------------------------- *)
\* largest group order / range handed to the samplers
MaxOrder == 5
\* largest bit count handed to bk_bnrand when it is called on its own
MaxBits == 9
\* calls a thread makes in one behaviour
MaxCalls == 2
\* keystream blocks a process derives in the specifications that cap them
MaxBlocks == 3
\* iterations of the do-while of EC_KEY_generate_key that consume no keystream
\* and whose history is kept
MaxSpin == 2
\* keystream blocks derived while two threads run side by side
MaxRaceBlocks == 2
\* largest buflen handed to bk_RAND_bytes when it is called on its own
MaxLen == 65
\* largest range handed to bk_bnrand_range when only a few draws are followed
MaxRange == 17

(* ------------------------- program constants --------------------------- *)
bk_BN_RAND_TOP_ANY == -1
bk_BN_RAND_BOTTOM_ANY == 0
\* config::brainkey1.size() < 16
MinBrainkeyLen == 16
\* sizeof(out)
BlockLen == 32
\* int count = 100
RangeAttempts == 100
\* unsigned int
CounterWidth == 32

\* "opmsg-brainkey-v1"
init_salt == <<111, 112, 109, 115, 103, 45, 98, 114, 97, 105, 110, 107, 101, 121, 45, 118, 49>>

Threads == {1, 2}
Procs == {1, 2}

\* two configuration strings: 16 bytes ("abcdefghijklmnop") and 15 bytes
BrainKeys == { [i \in 1..16 |-> 96 + i], [i \in 1..15 |-> 96 + i] }

Orders == 0..MaxOrder
Ranges == (0 - 1)..MaxOrder
WideRanges == 1..MaxRange
BitCounts == (0 - 1)..MaxBits
Tops == {bk_BN_RAND_TOP_ANY, 0, 1}
Bottoms == {bk_BN_RAND_BOTTOM_ANY, 1}
ByteVals == 0..255
\* the buffer lengths handed to bk_RAND_bytes
BufLens == 0..MaxLen
\* sample contents of a whole block: 32 bytes counting up from a first byte
Blocks == { [i \in 1..BlockLen |-> (b + i - 1) % 256] : b \in {0, 240} }

(* --------------------------- integer helpers --------------------------- *)
Min(a, b) == IF a < b THEN a ELSE b

RECURSIVE BitAnd(_, _)
BitAnd(a, b) ==
    IF a = 0 \/ b = 0 THEN 0
    ELSE (IF a % 2 = 1 /\ b % 2 = 1 THEN 1 ELSE 0) + 2 * BitAnd(a \div 2, b \div 2)

RECURSIVE BitOr(_, _)
BitOr(a, b) ==
    IF a = 0 THEN b
    ELSE IF b = 0 THEN a
    ELSE (IF a % 2 = 1 \/ b % 2 = 1 THEN 1 ELSE 0) + 2 * BitOr(a \div 2, b \div 2)

\* ~m of an int m >= 0: its low 16 bits (the operand it meets is a byte)
BitNot(m) == 65535 - (m % 65536)

\* conversion of an int to unsigned char
ToByte(x) == x % 256

RECURSIVE BN_num_bits(_)
BN_num_bits(a) == IF a <= 0 THEN 0 ELSE 1 + BN_num_bits(a \div 2)

\* libcrypto: 0 for n < 0 and for n beyond the top word
BN_is_bit_set(a, n) == IF n < 0 THEN FALSE ELSE (a \div (2 ^ n)) % 2 = 1

RECURSIVE BN_bin2bn(_)
BN_bin2bn(buf) ==
    IF buf = <<>> THEN 0
    ELSE buf[Len(buf)] + 256 * BN_bin2bn(SubSeq(buf, 1, Len(buf) - 1))

(* An unsigned int is kept as its two 16-bit halves, hi * 2^16 + lo.        *)
Half == 2 ^ (CounterWidth \div 2)
Counter(hi, lo) == [hi |-> hi, lo |-> lo]
CounterLess(a, b) == a.hi < b.hi \/ (a.hi = b.hi /\ a.lo < b.lo)

\* the counter values a call may start from: 0, before a carry, before the wrap
StartCounters == {Counter(0, 0), Counter(0, Half - 1), Counter(Half - 1, Half - 2)}

\* "%08x" of an unsigned int: 8 lower-case hex digits
HexDigit(d) == IF d < 10 THEN 48 + d ELSE 87 + d
Hex4(h) == [i \in 1..4 |-> HexDigit((h \div (16 ^ (4 - i))) % 16)]
Hex8(c) == Hex4(c.hi) \o Hex4(c.lo)

\* snprintf(saltbuf, sizeof(saltbuf) - 1, "%s.%s.%08x", salt, init_salt, cnt):
\* at most 126 characters are written
FormatSalt(salt, cnt) ==
    LET full == salt \o <<46>> \o init_salt \o <<46>> \o Hex8(cnt) IN
    SubSeq(full, 1, Min(Len(full), 126))

\* salt_cnt++ on an unsigned int
IncCounter(c) ==
    IF c.lo = Half - 1 THEN Counter((c.hi + 1) % Half, 0) ELSE Counter(c.hi, c.lo + 1)

\* scalar * generator in a cyclic group of the given order
EC_POINT_mul(k, order) == <<71, IF order > 0 THEN k % order ELSE k>>

(* ------------------------------- state --------------------------------- *)
VARIABLES
    brainkey1,  \* config::brainkey1, fixed once loaded
    salt_cnt,   \* the static counter of bk_RAND_bytes, one per process
    proc,       \* the process each thread belongs to
    th,         \* per thread: the position and the locals of its call, the key object
    used        \* history, per process: the salt of every block derived so far

vars == <<brainkey1, salt_cnt, proc, th, used>>

NoScalar == 0 - 1
NoPoint == <<>>

(* A thread that has made no call yet.  Program fields: pc, entry (the     *)
(* function called from outside), range, bits/top/bottom (arguments of     *)
(* bk_bnrand), count, r (the BIGNUM r / priv_key), buf, reg (the value of  *)
(* salt_cnt loaded by salt_cnt++), ret and site (the value returned and    *)
(* the line of the return that produced it), priv/pub (the EC_KEY).  The   *)
(* other fields are history of the current call; fetched is the buffer as  *)
(* bk_RAND_bytes filled it for a bk_bnrand that returned 1, kept by the    *)
(* action StoreFetched only; outs is the sequence of the blocks (out) a    *)
(* bk_RAND_bytes called on its own derived.                                *)
IdleFrame ==
    [pc |-> "idle", entry |-> "none", calls |-> 0,
     range |-> 0, bits |-> 0, top |-> bk_BN_RAND_TOP_ANY, bottom |-> bk_BN_RAND_BOTTOM_ANY,
     count |-> 0, r |-> 0, buf |-> <<>>, reg |-> Counter(0, 0),
     ret |-> NoScalar, site |-> 0, priv |-> NoScalar, pub |-> NoPoint,
     ndraws |-> 0, raw |-> 0, lastok |-> FALSE, rets |-> <<>>, nblocks |-> 0,
     nrange |-> 0, nbnrand |-> 0, truerand |-> 0, trueret |-> NoScalar, cnt0 |-> Counter(0, 0),
     fetched |-> <<>>, buflen |-> 0, outs |-> <<>>]

\* a new call from outside: fresh locals, a fresh key object
NewCall(f, entry, cnt) ==
    [IdleFrame EXCEPT !.pc = "run", !.entry = entry, !.calls = f.calls + 1, !.cnt0 = cnt]

\* a return statement at the given line
Ret(f, v, line) == [f EXCEPT !.pc = "ret", !.ret = v, !.site = line]

\* back in the caller of the outermost function
Finish(f) == IF f.pc = "ret" THEN [f EXCEPT !.pc = "idle"] ELSE f

(* ----------------------------- bk_bnrand ------------------------------- *)
\* the first `need` bytes of a block: every content is possible
Chunks(need) == [1..need -> ByteVals]

BytesOf(bits) == (bits + 7) \div 8
TopBitOf(bits) == (bits - 1) % 8
\* a mask that starts at the top bit itself: 0xff << bit
MaskOfFromTopBit(bits) == 255 * (2 ^ TopBitOf(bits))

\* line 107
MaskOf(bits) == 255 * (2 ^ (TopBitOf(bits) + 1))

\* top bits that leave the second byte alone when the top bit sits in a byte of its own
ShapeTopFirstByteOnly(buf, bits, top) ==
    LET bit == TopBitOf(bits) IN
    IF top >= 0 THEN
        IF top # 0 THEN
            IF bit = 0
            THEN [buf EXCEPT ![1] = 1]
            ELSE [buf EXCEPT ![1] = ToByte(BitOr(@, 3 * (2 ^ (bit - 1))))]
        ELSE [buf EXCEPT ![1] = ToByte(BitOr(@, 2 ^ bit))]
    ELSE buf

\* lines 118-129: the top bits
ShapeTop(buf, bits, top) ==
    LET bit == TopBitOf(bits) IN
    IF top >= 0 THEN
        IF top # 0 THEN
            IF bit = 0
            THEN [[buf EXCEPT ![1] = 1] EXCEPT ![2] = ToByte(BitOr(@, 128))]
            ELSE [buf EXCEPT ![1] = ToByte(BitOr(@, 3 * (2 ^ (bit - 1))))]
        ELSE [buf EXCEPT ![1] = ToByte(BitOr(@, 2 ^ bit))]
    ELSE buf

\* line 130: buf[0] &= ~mask
ShapeMask(buf, bits) == [buf EXCEPT ![1] = ToByte(BitAnd(@, BitNot(MaskOf(bits))))]

\* a bottom bit set in the first byte of the buffer: buf[0] |= 1
ShapeBottomFirstByte(buf, bottom) ==
    IF bottom # 0 THEN [buf EXCEPT ![1] = ToByte(BitOr(@, 1))] ELSE buf

\* lines 131-132: the bottom bit
ShapeBottom(buf, bottom) ==
    IF bottom # 0 THEN [buf EXCEPT ![Len(buf)] = ToByte(BitOr(@, 1))] ELSE buf

\* lines 118-133: the value handed to BN_bin2bn
Shaped(buf, bits, top, bottom) ==
    BN_bin2bn(ShapeBottom(ShapeMask(ShapeTop(buf, bits, top), bits), bottom))

\* a test that also refuses one bit with the top bit forced
IllegalShapeTopOne(bits, top) == bits < 0 \/ (bits = 1 /\ top >= 0)

\* line 102
IllegalShape(bits, top) == bits < 0 \/ (bits = 1 /\ top > 0)

\* line 55
TooShort(bk) == Len(bk) < MinBrainkeyLen

\* line 70: have < buflen
MoreNeededInclusive(have, buflen) == have <= buflen

MoreNeeded(have, buflen) == have < buflen

(* lines 53-70, up to the first read of salt_cnt: buf is the part of the   *)
(* caller's buffer written so far (have bytes); the rest is zero.          *)
bk_RAND_bytes_enter(f, buflen, bk) ==
    LET g == [f EXCEPT !.buflen = buflen, !.buf = <<>>] IN
    IF TooShort(bk) THEN Ret(g, 0, 56)
    ELSE IF MoreNeeded(0, buflen) THEN [g EXCEPT !.pc = "load"]
    ELSE Ret(g, buflen, 87)

(* lines 93-116, up to the first read of salt_cnt.  flt names the library  *)
(* call that fails in this step ("none": none does).                       *)
bk_bnrand_enter(f, bits, top, bottom, bk, flt) ==
    LET g == [f EXCEPT !.bits = bits, !.top = top, !.bottom = bottom,
                       !.buf = <<>>, !.nbnrand = @ + 1] IN
    IF bits = 0 THEN
        IF top # bk_BN_RAND_TOP_ANY \/ bottom # bk_BN_RAND_BOTTOM_ANY
        THEN Ret(g, 0, 97)
        ELSE Ret([g EXCEPT !.r = 0], 1, 99)
    ELSE IF IllegalShape(bits, top) THEN Ret(g, 0, 103)
    ELSE IF flt = "new" THEN Ret(g, 0, 111)
    ELSE LET h == bk_RAND_bytes_enter(g, BytesOf(bits), bk) IN
         IF h.pc = "load" THEN h ELSE Ret(h, 0, h.site)

\* lines 80-84 and the loop test of line 70: the bytes copied from one block
Need(f) == Min(f.buflen - Len(f.buf), BlockLen)

\* line 70: the block about to be derived fills the buffer
LastBlock(f) == Len(f.buf) + Need(f) >= f.buflen

(* lines 74-85 after the write of salt_cnt, for a block that does not yet  *)
(* fill the buffer: the block is derived and copied.                       *)
bk_RAND_bytes_block(f, chunk, flt) ==
    IF flt = "PKCS5_PBKDF2_HMAC" THEN Ret([f EXCEPT !.buf = <<>>], 0, 78)
    ELSE [f EXCEPT !.buf = f.buf \o chunk, !.pc = "load"]

\* line 68: the part of the buffer that memset cleared and no block reached
Zeros(n) == [i \in 1..n |-> 0]

(* lines 74-87 after the write of salt_cnt, in a bk_RAND_bytes called on   *)
(* its own: out is the block PBKDF2 derives; the buffer is the caller's.   *)
bk_RAND_bytes_step(f, out, flt) ==
    IF flt = "PKCS5_PBKDF2_HMAC"
    THEN Ret([f EXCEPT !.buf = f.buf \o Zeros(f.buflen - Len(f.buf))], 0, 78)
    ELSE LET g == [f EXCEPT !.buf = f.buf \o SubSeq(out, 1, Need(f)),
                            !.outs = Append(@, out)] IN
         IF MoreNeeded(Len(g.buf), g.buflen) THEN [g EXCEPT !.pc = "load"]
         ELSE Ret(g, g.buflen, 87)

\* the values a shaped buffer of one byte can take, by bits, top and bottom
OneByteDraws ==
    [bits \in 1..8 |-> [top \in Tops |-> [bottom \in Bottoms |->
        { Shaped(chunk, bits, top, bottom) : chunk \in Chunks(1) }]]]

\* the values the shaped buffer can take once the last block is copied
DrawValues(f) ==
    IF f.buflen = 1
    THEN OneByteDraws[f.bits][f.top][f.bottom]
    ELSE { Shaped(f.buf \o chunk, f.bits, f.top, f.bottom) : chunk \in Chunks(Need(f)) }

(* lines 74-87 and 115-138 after the write of salt_cnt, for the last       *)
(* block: v is the value of the shaped buffer; the unique_ptr frees buf.   *)
bk_bnrand_done(f, v, flt) ==
    LET g == [f EXCEPT !.buf = <<>>] IN
    IF flt = "PKCS5_PBKDF2_HMAC" THEN Ret(g, 0, 78)
    ELSE IF flt = "BN_bin2bn" THEN Ret(g, 0, 134)
    ELSE Ret([g EXCEPT !.r = v], 1, 138)

(* --------------------------- bk_bnrand_range --------------------------- *)
\* a test that lets a range of zero through: BN_is_negative(range) only
InvalidRangeNegativeOnly(range) == range < 0

\* line 148
InvalidRange(range) == range <= 0

\* a test of the bit below the top bit only
Is100SecondBitOnly(range) ==
    LET n == BN_num_bits(range) IN ~BN_is_bit_set(range, n - 2)

\* line 157: range = 100..._2
Is100(range) ==
    LET n == BN_num_bits(range) IN
    ~BN_is_bit_set(range, n - 2) /\ ~BN_is_bit_set(range, n - 3)

\* lines 163 and 187: the bits asked of bk_bnrand
DrawBits(range) ==
    IF Is100(range) THEN BN_num_bits(range) + 1 ELSE BN_num_bits(range)

\* a reduction that subtracts once only
ReduceOnce(r, range) == IF Is100(range) /\ r >= range THEN r - range ELSE r

\* lines 172-178: at most two subtractions (none on the plain path)
Reduce(r, range) ==
    IF Is100(range) /\ r >= range
    THEN IF r - range >= range THEN (r - range) - range ELSE r - range
    ELSE r

\* a count tested before it is decremented: if (!count--) return 0
ExhaustedLate(count) == count = 0

\* lines 180 and 190: if (!--count) return 0
Exhausted(count) == count - 1 = 0

\* a loop test that lets r = range through
RejectedAbove(r, range) == r > range

\* lines 183 and 193: while (BN_cmp(r, range) >= 0)
Rejected(r, range) == r >= range

\* lines 162-163 and 185-187: one more iteration, up to the first read of salt_cnt
range_draw(f, bk, flt) ==
    LET g == bk_bnrand_enter(f, DrawBits(f.range), bk_BN_RAND_TOP_ANY,
                             bk_BN_RAND_BOTTOM_ANY, bk, flt) IN
    IF g.pc = "load" THEN g ELSE Ret(g, 0, g.site)

\* a test that also takes ranges of two bits for ranges of one bit
IsOneBitOrTwo(range) == BN_num_bits(range) <= 2

\* lines 151 and 155: n == 1
IsOneBit(range) == BN_num_bits(range) = 1

\* lines 145-163/187: the call, up to the first read of salt_cnt
bk_bnrand_range_enter(f, range, bk, flt) ==
    LET g == [f EXCEPT !.range = range, !.count = RangeAttempts, !.ndraws = 0,
                       !.raw = 0, !.lastok = FALSE, !.nrange = @ + 1] IN
    IF InvalidRange(range) THEN Ret(g, 0, 149)
    ELSE IF IsOneBit(range) THEN Ret([g EXCEPT !.r = 0], 1, 198)
    ELSE range_draw(g, bk, flt)

(* lines 164-198 after bk_bnrand has returned (f.pc = "ret"): the          *)
(* subtractions, the count, the loop test.                                 *)
bk_bnrand_range_tail(f, bk, flt) ==
    IF f.ret = 0 THEN f
    ELSE
      LET range == f.range
          g == [f EXCEPT !.ndraws = @ + 1, !.raw = f.r] IN
      IF Is100(range) /\ f.r >= range /\ flt = "BN_sub1" THEN Ret(g, 0, 174)
      ELSE IF Is100(range) /\ f.r >= range /\ f.r - range >= range /\ flt = "BN_sub2"
           THEN Ret([g EXCEPT !.r = f.r - range], 0, 177)
      ELSE
        LET h == [g EXCEPT !.r = Reduce(f.r, range), !.count = @ - 1,
                           !.lastok = ~Rejected(Reduce(f.r, range), range)] IN
        IF Exhausted(g.count) THEN Ret(h, 0, IF Is100(range) THEN 181 ELSE 191)
        ELSE IF Rejected(h.r, range) THEN range_draw(h, bk, flt)
        ELSE Ret(h, 1, 198)

(* ------------------------- EC_KEY_generate_key ------------------------- *)
\* a loop test that never repeats the draw
IsZeroScalarNever(r) == FALSE

\* line 222: while (BN_is_zero(priv_key))
IsZeroScalar(r) == r = 0

\* lines 224-232
gen_finish(f, flt) ==
    IF flt = "EC_POINT_mul" THEN Ret(f, 0, 225)
    ELSE IF flt = "EC_KEY_set_private_key" THEN Ret(f, 0, 228)
    ELSE LET g == [f EXCEPT !.priv = f.r] IN
         IF flt = "EC_KEY_set_public_key" THEN Ret(g, 0, 230)
         ELSE Ret([g EXCEPT !.pub = EC_POINT_mul(f.r, f.range)], 1, 232)

(* lines 219-222 from the top of the do-while: bk_bnrand_range is entered. *)
(* It returns at once only for a bad order or an order of 1; the latter    *)
(* yields 0 and the loop repeats without touching the keystream ("spin").  *)
gen_loop(f, bk, flt) ==
    LET g == bk_bnrand_range_enter(f, f.range, bk, flt) IN
    IF g.pc = "load" THEN g
    ELSE IF g.ret = 0 THEN Ret(g, 0, g.site)
    ELSE LET h == [g EXCEPT !.rets = Append(@, g.r)] IN
         IF IsZeroScalar(h.r) THEN [h EXCEPT !.pc = "spin"] ELSE gen_finish(h, flt)

\* a loop that draws again when bk_bnrand_range has failed
gen_tailRetry(f, bk, flt) ==
    IF f.pc = "load" THEN f
    ELSE IF f.ret = 0 THEN gen_loop(f, bk, "none")
    ELSE LET h == [f EXCEPT !.rets = Append(@, f.r)] IN
         IF IsZeroScalar(h.r) THEN gen_loop(h, bk, flt) ELSE gen_finish(h, flt)

\* lines 220-232 after bk_bnrand_range has returned or reached a read of salt_cnt
gen_tail(f, bk, flt) ==
    IF f.pc = "load" THEN f
    ELSE IF f.ret = 0 THEN Ret(f, 0, f.site)
    ELSE LET h == [f EXCEPT !.rets = Append(@, f.r)] IN
         IF IsZeroScalar(h.r) THEN gen_loop(h, bk, flt) ELSE gen_finish(h, flt)

(* lines 204-205: the true-random generator of libcrypto. tr is what it    *)
(* draws: 0 stands for its failure, another value is the scalar.           *)
TrueRandom(f, order, tr) ==
    LET g == [f EXCEPT !.truerand = @ + 1, !.trueret = IF tr = 0 THEN 0 ELSE 1] IN
    IF tr = 0 THEN Ret(g, 0, 205)
    ELSE Ret([g EXCEPT !.priv = tr, !.pub = EC_POINT_mul(tr, order)], 1, 205)

\* a test that sends a 15-byte string down the deterministic path
UseFallbackBelow15(bk) == Len(bk) < MinBrainkeyLen - 1

\* a test that always hands the call to the true-random generator
UseFallbackAlways(bk) == TRUE

\* line 204
UseFallback(bk) == Len(bk) < MinBrainkeyLen

\* lines 202-220, up to the first read of salt_cnt
EC_KEY_generate_key_enter(f, order, bk, flt, tr) ==
    LET g == [f EXCEPT !.range = order] IN
    IF UseFallback(bk) THEN TrueRandom(g, order, tr)
    ELSE IF flt = "BN_new" THEN Ret(g, 0, 214)
    ELSE IF flt = "EC_GROUP_get_order" THEN Ret(g, 0, 217)
    ELSE gen_loop([g EXCEPT !.r = 0], bk, flt)

(* what follows the derivation of the last block of a draw, by the function called *)
after_draw(f, v, bk, flt) ==
    LET g == bk_bnrand_done(f, v, flt) IN
    IF f.entry = "bits" THEN g
    ELSE IF f.entry = "range" THEN bk_bnrand_range_tail(g, bk, flt)
    ELSE gen_tail(bk_bnrand_range_tail(g, bk, flt), bk, flt)

(* ------------------------------ actions -------------------------------- *)
\* line 63: static unsigned int salt_cnt = 0
InitialCounter(p) == Counter(0, 0)

\* lines 65-66
SaltOf(bk) == SubSeq(bk, 1, Min(4, Len(bk)))
PassOf(bk) == SubSeq(bk, 5, Len(bk))

\* line 72: the salt of the block derived with the loaded counter value
BlockSalt(f, bk) == FormatSalt(SaltOf(bk), f.reg)

CallFaults == {"none", "BN_new", "EC_GROUP_get_order", "new"}
BlockFaults == {"none", "PKCS5_PBKDF2_HMAC", "BN_bin2bn", "BN_sub1", "BN_sub2", "new",
                "EC_POINT_mul", "EC_KEY_set_private_key", "EC_KEY_set_public_key"}

\* what the true-random generator may draw for a group of the given order
TrueDraws(order) == {0} \cup 1..(order - 1)

Init ==
    /\ brainkey1 \in BrainKeys
    /\ salt_cnt = [p \in Procs |-> InitialCounter(p)]
    /\ proc = [t \in Threads |-> 1]
    /\ th = [t \in Threads |-> IdleFrame]
    /\ used = [p \in Procs |-> <<>>]

\* opmsg::EC_KEY_generate_key(eckey), eckey a fresh key of a group of some order
CallGenerate(t) ==
    /\ th[t].pc = "idle"
    /\ \E order \in Orders, flt \in CallFaults :
         \E tr \in TrueDraws(order) :
           th' = [th EXCEPT ![t] = Finish(EC_KEY_generate_key_enter(
                     NewCall(th[t], "generate", salt_cnt[proc[t]]), order, brainkey1, flt, tr))]
    /\ UNCHANGED <<brainkey1, salt_cnt, proc, used>>

\* bk_bnrand_range(r, range) on its own
CallRange(t) ==
    /\ th[t].pc = "idle"
    /\ \E range \in Ranges, flt \in {"none", "new"} :
           th' = [th EXCEPT ![t] = Finish(bk_bnrand_range_enter(
                     NewCall(th[t], "range", salt_cnt[proc[t]]), range, brainkey1, flt))]
    /\ UNCHANGED <<brainkey1, salt_cnt, proc, used>>

\* bk_bnrand_range(r, range) on its own, with a range of up to five bits
CallRangeWide(t) ==
    /\ th[t].pc = "idle"
    /\ \E range \in WideRanges, flt \in {"none", "new"} :
           th' = [th EXCEPT ![t] = Finish(bk_bnrand_range_enter(
                     NewCall(th[t], "range", salt_cnt[proc[t]]), range, brainkey1, flt))]
    /\ UNCHANGED <<brainkey1, salt_cnt, proc, used>>

\* bk_bnrand(rnd, bits, top, bottom) on its own
CallBits(t) ==
    /\ th[t].pc = "idle"
    /\ \E bits \in BitCounts, top \in Tops, bottom \in Bottoms, flt \in {"none", "new"} :
           th' = [th EXCEPT ![t] = Finish(bk_bnrand_enter(
                     NewCall(th[t], "bits", salt_cnt[proc[t]]), bits, top, bottom, brainkey1, flt))]
    /\ UNCHANGED <<brainkey1, salt_cnt, proc, used>>

\* line 72, salt_cnt++: the read
Load(t) ==
    /\ th[t].pc = "load"
    /\ th' = [th EXCEPT ![t] = [@ EXCEPT !.reg = salt_cnt[proc[t]], !.pc = "store"]]
    /\ UNCHANGED <<brainkey1, salt_cnt, proc, used>>

\* the history entry of a block
UsedEntry(t, f, bk) ==
    [salt |-> BlockSalt(f, bk), pass |-> PassOf(bk), cnt |-> f.reg, t |-> t, call |-> f.calls]

(* line 72, salt_cnt++: the write; then the block and all that follows it  *)
(* up to the next read of salt_cnt or the return to the caller.            *)
Store(t) ==
    /\ th[t].pc = "store"
    /\ th[t].entry # "bytes"
    /\ salt_cnt' = [salt_cnt EXCEPT ![proc[t]] = IncCounter(th[t].reg)]
    /\ used' = [used EXCEPT ![proc[t]] = Append(@, UsedEntry(t, th[t], brainkey1))]
    /\ LET f == [th[t] EXCEPT !.nblocks = @ + 1] IN
       IF LastBlock(f)
       THEN \E v \in DrawValues(f), flt \in BlockFaults :
                th' = [th EXCEPT ![t] = Finish(after_draw(f, v, brainkey1, flt))]
       ELSE \E chunk \in Chunks(Need(f)), flt \in {"none", "PKCS5_PBKDF2_HMAC"} :
                th' = [th EXCEPT ![t] = Finish(bk_RAND_bytes_block(f, chunk, flt))]
    /\ UNCHANGED <<brainkey1, proc>>

\* bk_RAND_bytes(buf, buflen) on its own, buf a buffer of buflen bytes
CallBytes(t) ==
    /\ th[t].pc = "idle"
    /\ \E buflen \in BufLens :
           th' = [th EXCEPT ![t] = Finish(bk_RAND_bytes_enter(
                     NewCall(th[t], "bytes", salt_cnt[proc[t]]), buflen, brainkey1))]
    /\ UNCHANGED <<brainkey1, salt_cnt, proc, used>>

\* Store for a bk_RAND_bytes called on its own: the block is one of Blocks
StoreBlock(t) ==
    /\ th[t].pc = "store"
    /\ th[t].entry = "bytes"
    /\ salt_cnt' = [salt_cnt EXCEPT ![proc[t]] = IncCounter(th[t].reg)]
    /\ used' = [used EXCEPT ![proc[t]] = Append(@, UsedEntry(t, th[t], brainkey1))]
    /\ LET f == [th[t] EXCEPT !.nblocks = @ + 1] IN
       \E out \in Blocks, flt \in {"none", "PKCS5_PBKDF2_HMAC"} :
           th' = [th EXCEPT ![t] = Finish(bk_RAND_bytes_step(f, out, flt))]
    /\ UNCHANGED <<brainkey1, proc>>

\* the library calls that can fail in bk_bnrand once the buffer is allocated
ShapeFaults == {"none", "PKCS5_PBKDF2_HMAC", "BN_bin2bn"}

\* line 116 passed and line 138 reached: the bytes bk_RAND_bytes had written
Fetched(g, b) == IF g.ret = 1 /\ g.site = 138 THEN [g EXCEPT !.fetched = b] ELSE g

(* Store for a bk_bnrand called on its own, with the content of the block  *)
(* (not only the shaped value) chosen and the filled buffer remembered.    *)
StoreFetched(t) ==
    /\ th[t].pc = "store"
    /\ th[t].entry = "bits"
    /\ salt_cnt' = [salt_cnt EXCEPT ![proc[t]] = IncCounter(th[t].reg)]
    /\ used' = [used EXCEPT ![proc[t]] = Append(@, UsedEntry(t, th[t], brainkey1))]
    /\ LET f == [th[t] EXCEPT !.nblocks = @ + 1] IN
       \E chunk \in Chunks(Need(f)), flt \in ShapeFaults :
           LET b == f.buf \o chunk IN
           th' = [th EXCEPT ![t] =
                   IF LastBlock(f)
                   THEN Finish(Fetched(after_draw(f, Shaped(b, f.bits, f.top, f.bottom),
                                                  brainkey1, flt), b))
                   ELSE Finish(bk_RAND_bytes_block(f, chunk, flt))]
    /\ UNCHANGED <<brainkey1, proc>>

(* lines 219-222 with an order of 1, where the do-while goes round without *)
(* reading salt_cnt: from the test of line 222 ("spin") back to line 220   *)
(* ("again"), and from there through bk_bnrand_range to the test.  The     *)
(* history of the call is kept for the first MaxSpin + 1 rounds.           *)
SpinStep(f, bk) ==
    IF f.pc = "spin" THEN [f EXCEPT !.pc = "again"]
    ELSE LET g == Finish(gen_loop(f, bk, "none")) IN
         IF Len(f.rets) > MaxSpin THEN [g EXCEPT !.rets = f.rets, !.nrange = f.nrange] ELSE g

Spin(t) ==
    /\ th[t].pc \in {"spin", "again"}
    /\ th' = [th EXCEPT ![t] = SpinStep(@, brainkey1)]
    /\ UNCHANGED <<brainkey1, salt_cnt, proc, used>>

\* the caps of the model
CallsBelow(n) == \A t \in Threads : th[t].calls < n
BlocksBelow(n) == \A p \in Procs : Len(used[p]) < n

(* ---------------------------- specifications --------------------------- *)
\* one thread calls EC_KEY_generate_key again and again
Generate(t) == CallsBelow(MaxCalls) /\ CallGenerate(t)
StoreCapped(t) == BlocksBelow(MaxBlocks) /\ Store(t)

Next == \E t \in {1} : Generate(t) \/ Load(t) \/ StoreCapped(t) \/ Spin(t)

Spec == Init /\ [][Next]_vars

\* one thread calls bk_bnrand_range once, with any range
Range(t) == CallsBelow(1) /\ CallRange(t)

NextRange == \E t \in {1} : Range(t) \/ Load(t) \/ Store(t)

SpecRange == Init /\ [][NextRange]_vars

\* one thread calls bk_bnrand, with any arguments
Bits(t) == CallsBelow(MaxCalls) /\ CallBits(t)

NextBits == \E t \in {1} : Bits(t) \/ Load(t) \/ StoreCapped(t)

SpecBits == Init /\ [][NextBits]_vars

\* one thread calls bk_bnrand once; the content of the buffer is remembered
BitsOnce(t) == CallsBelow(1) /\ CallBits(t)

NextShape == \E t \in {1} : BitsOnce(t) \/ Load(t) \/ StoreFetched(t)

SpecShape == Init /\ [][NextShape]_vars

(* One thread calls bk_RAND_bytes or bk_bnrand once, in a process whose     *)
(* counter has any of the start values.                                    *)
InitFill ==
    /\ brainkey1 \in BrainKeys
    /\ \E c \in StartCounters : salt_cnt = [p \in Procs |-> c]
    /\ proc = [t \in Threads |-> 1]
    /\ th = [t \in Threads |-> IdleFrame]
    /\ used = [p \in Procs |-> <<>>]

Fill(t) == CallsBelow(1) /\ CallBytes(t)

NextFill == \E t \in {1} : Fill(t) \/ BitsOnce(t) \/ Load(t) \/ Store(t) \/ StoreBlock(t)

SpecFill == InitFill /\ [][NextFill]_vars

\* one thread calls bk_bnrand_range once; the first draws are followed
RangeWide(t) == CallsBelow(1) /\ CallRangeWide(t)

NextRatio == \E t \in {1} : RangeWide(t) \/ Load(t) \/ StoreCapped(t)

SpecRatio == Init /\ [][NextRatio]_vars

\* one thread calls any of the four functions, again and again
RangeAgain(t) == CallsBelow(MaxCalls) /\ CallRange(t)
FillAgain(t) == CallsBelow(MaxCalls) /\ CallBytes(t)
StoreBlockCapped(t) == BlocksBelow(MaxBlocks) /\ StoreBlock(t)

NextCalls ==
    \E t \in {1} : \/ Generate(t) \/ RangeAgain(t) \/ Bits(t) \/ FillAgain(t)
                    \/ Load(t) \/ StoreCapped(t) \/ StoreBlockCapped(t) \/ Spin(t)

SpecCalls == Init /\ [][NextCalls]_vars

(* The same single thread in a process that has already derived 2^32 - 2   *)
(* blocks: salt_cnt is two steps from the top of its type.  The history    *)
(* starts here.                                                            *)
InitWrap ==
    /\ brainkey1 \in BrainKeys
    /\ salt_cnt = [p \in Procs |-> Counter(Half - 1, Half - 2)]
    /\ proc = [t \in Threads |-> 1]
    /\ th = [t \in Threads |-> IdleFrame]
    /\ used = [p \in Procs |-> <<>>]

SpecWrap == InitWrap /\ [][Next]_vars

\* two threads of one process call EC_KEY_generate_key, once each
GenerateOnce(t) == th[t].calls < 1 /\ CallGenerate(t)

StoreRace(t) == BlocksBelow(MaxRaceBlocks) /\ Store(t)

NextConc == \E t \in Threads : GenerateOnce(t) \/ Load(t) \/ StoreRace(t) \/ Spin(t)

SpecConc == Init /\ [][NextConc]_vars

(* The specification Spec with a thread that keeps running: a step that   *)
(* is possible is eventually taken.  A call stops being followed once the  *)
(* process has derived MaxBlocks blocks.                                   *)
SpecLive ==
    /\ Init /\ [][Next]_vars
    /\ WF_vars(Load(1)) /\ WF_vars(StoreCapped(1)) /\ WF_vars(Spin(1))

(* Two processes with the same configuration run the same calls side by    *)
(* side.  Every library call is a function of its arguments: it fails in   *)
(* both runs or in neither, and PBKDF2 yields the same block in both runs  *)
(* when it is given the same password and salt.  Only the true-random      *)
(* generator draws independently.                                          *)
InitDet ==
    /\ brainkey1 \in BrainKeys
    /\ salt_cnt = [p \in Procs |-> InitialCounter(p)]
    /\ proc = [t \in Threads |-> t]
    /\ th = [t \in Threads |-> IdleFrame]
    /\ used = [p \in Procs |-> <<>>]

PairGenerate ==
    /\ CallsBelow(MaxCalls)
    /\ \A t \in Threads : th[t].pc = "idle"
    /\ \E order \in Orders, flt \in CallFaults :
         \E tr \in [Threads -> TrueDraws(order)] :
           th' = [t \in Threads |-> Finish(EC_KEY_generate_key_enter(
                     NewCall(th[t], "generate", salt_cnt[proc[t]]), order, brainkey1, flt, tr[t]))]
    /\ UNCHANGED <<brainkey1, salt_cnt, proc, used>>

PairLoad ==
    /\ \A t \in Threads : th[t].pc = "load"
    /\ th' = [t \in Threads |-> [th[t] EXCEPT !.reg = salt_cnt[proc[t]], !.pc = "store"]]
    /\ UNCHANGED <<brainkey1, salt_cnt, proc, used>>

\* the shaped values of two draws: from one block if the salts agree
DrawPairs(f, g, bk) ==
    IF BlockSalt(f, bk) = BlockSalt(g, bk)
    THEN LET n == IF Need(f) > Need(g) THEN Need(f) ELSE Need(g) IN
         { << Shaped(f.buf \o SubSeq(c, 1, Need(f)), f.bits, f.top, f.bottom),
              Shaped(g.buf \o SubSeq(c, 1, Need(g)), g.bits, g.top, g.bottom) >> : c \in Chunks(n) }
    ELSE DrawValues(f) \X DrawValues(g)

PairStore ==
    /\ BlocksBelow(MaxBlocks)
    /\ \A t \in Threads : th[t].pc = "store" /\ LastBlock(th[t])
    /\ salt_cnt' = [p \in Procs |-> IncCounter(th[p].reg)]
    /\ used' = [p \in Procs |-> Append(used[p], UsedEntry(p, th[p], brainkey1))]
    /\ \E v \in DrawPairs(th[1], th[2], brainkey1), flt \in BlockFaults :
           th' = [t \in Threads |-> Finish(after_draw(
                     [th[t] EXCEPT !.nblocks = @ + 1], v[t], brainkey1, flt))]
    /\ UNCHANGED <<brainkey1, proc>>

PairSpin ==
    /\ \A t \in Threads : th[t].pc \in {"spin", "again"}
    /\ th' = [t \in Threads |-> SpinStep(th[t], brainkey1)]
    /\ UNCHANGED <<brainkey1, salt_cnt, proc, used>>

NextDet == PairGenerate \/ PairLoad \/ PairStore \/ PairSpin

SpecDet == InitDet /\ [][NextDet]_vars

(* ======================================================================= *)
(*                               the claims                                *)
(* ======================================================================= *)
\* a call of the given function that has returned to its caller
Returned(f, entry) == f.entry = entry /\ f.pc = "idle"

\* the return statements of bk_bnrand_range that give up after 100 draws
SamplingExhausted(f) == f.ret = 0 /\ f.site \in {181, 191}

(* C1 -- range law.  Whenever bk_bnrand_range(r, range) returns 1, the     *)
(* value in r satisfies 0 <= r < range, on the n = 1 path, the 100... path *)
(* and the plain path alike and whatever the keystream holds; for          *)
(* range <= 0 it returns 0, from line 149.                                 *)
C1_RangeLaw ==
    \A t \in Threads :
        LET f == th[t] IN
        Returned(f, "range") =>
            /\ f.ret \in {0, 1}
            /\ f.ret = 1 => (f.range > 0 /\ 0 <= f.r /\ f.r < f.range)
            /\ f.range <= 0 => (f.ret = 0 /\ f.site = 149)

\* a call on the 100... path that returned a draw reduced by two subtractions
C1_Witness ==
    \E t \in Threads :
        LET f == th[t] IN
        /\ Returned(f, "range") /\ f.ret = 1
        /\ Is100(f.range) /\ f.raw >= 2 * f.range

\* the raw values a draw for the range can take
RawDraws(range) == 0..(2 ^ DrawBits(range) - 1)

\* the raw values one draw maps to the output v
Preimage(range, v) ==
    { d \in RawDraws(range) : ~Rejected(Reduce(d, range), range) /\ Reduce(d, range) = v }

(* C5 -- no modulo bias.  For the range of a call (range >= 2) the mapping *)
(* of one raw draw sends the same number of raw values to every output in  *)
(* [0, range): one on the plain path, three on the 100... path, where a    *)
(* draw d < 3*range yields d mod range and every d >= 3*range is rejected; *)
(* and a call that returned 1 returned its last raw draw mapped so.        *)
C5_NoModuloBias ==
    \A t \in Threads :
        LET f == th[t]
            range == f.range
            k == IF Is100(range) THEN 3 ELSE 1 IN
        (f.entry = "range" /\ range >= 2) =>
            /\ \A v \in 0..(range - 1) : Cardinality(Preimage(range, v)) = k
            /\ \A d \in RawDraws(range) :
                   /\ d < k * range => (~Rejected(Reduce(d, range), range) /\ Reduce(d, range) = d % range)
                   /\ d >= k * range => Rejected(Reduce(d, range), range)
            /\ (f.pc = "idle" /\ f.ret = 1) => (f.raw < k * range /\ f.r = f.raw % range)

\* a call on the 100... path that returned a draw reduced by one subtraction
C5_Witness ==
    \E t \in Threads :
        LET f == th[t] IN
        /\ Returned(f, "range") /\ f.ret = 1
        /\ Is100(f.range) /\ f.raw >= f.range /\ f.raw < 2 * f.range

(* C6 (as stated) -- a call fails with SamplingExhausted only when 100     *)
(* draws have been made and every one of them was rejected; a call whose   *)
(* 100th draw is acceptable returns that draw successfully.                *)
C6_AsStated ==
    \A t \in Threads :
        LET f == th[t] IN
        Returned(f, "range") =>
            /\ SamplingExhausted(f) => (f.ndraws = RangeAttempts /\ ~f.lastok)
            /\ (f.ndraws = RangeAttempts /\ f.lastok) => f.ret = 1

(* C6 (amended) -- a call makes at most 100 draws; while it runs every     *)
(* draw made so far was rejected and count = 100 - draws; it returns 1     *)
(* with the first acceptable draw only among the first 99 draws; it fails  *)
(* from line 181 or 191 only once the 100th draw has been made, and once   *)
(* the 100th draw has been made it fails whatever the value of that draw   *)
(* (from line 181 or 191, or from 174 or 177 if BN_sub fails).             *)
C6_AttemptBound ==
    \A t \in Threads :
        LET f == th[t] IN
        f.entry = "range" =>
            /\ f.ndraws <= RangeAttempts
            /\ (f.pc \in {"load", "store"}) =>
                   /\ f.count = RangeAttempts - f.ndraws /\ f.count >= 1
                   /\ f.ndraws > 0 => ~f.lastok
            /\ (f.pc = "idle" /\ f.ret = 1 /\ f.range >= 2) =>
                   (f.ndraws >= 1 /\ f.ndraws <= RangeAttempts - 1 /\ f.lastok /\ f.r < f.range)
            /\ f.pc = "idle" =>
                   /\ SamplingExhausted(f) => f.ndraws = RangeAttempts
                   /\ f.ndraws = RangeAttempts =>
                          (f.ret = 0 /\ (SamplingExhausted(f) \/ f.site \in {174, 177}))

\* the 100th draw was acceptable and the call failed
C6_Witness ==
    \E t \in Threads :
        LET f == th[t] IN
        /\ Returned(f, "range") /\ f.ndraws = RangeAttempts /\ f.lastok
        /\ SamplingExhausted(f)

\* the deterministic path is taken: the configuration string has 16 bytes or more
Deterministic == Len(brainkey1) >= MinBrainkeyLen

(* C2 -- zero-scalar rejection.  Whenever EC_KEY_generate_key returns 1 on *)
(* the deterministic path, the private scalar of the key is in [1, order)  *)
(* and the public point is scalar * generator; every value that            *)
(* bk_bnrand_range returned before the last one was 0 and was discarded,   *)
(* and the scalar is the first nonzero value returned.                     *)
C2_ZeroScalarRejected ==
    \A t \in Threads :
        LET f == th[t]
            n == Len(f.rets) IN
        (f.entry = "generate" /\ Deterministic) =>
            /\ \A i \in 1..(n - 1) : f.rets[i] = 0
            /\ f.pc # "idle" => \A i \in 1..n : f.rets[i] = 0
            /\ (f.pc = "idle" /\ f.ret = 1) =>
                   /\ n >= 1 /\ f.rets[n] # 0 /\ f.priv = f.rets[n]
                   /\ f.priv >= 1 /\ f.priv < f.range
                   /\ f.pub = EC_POINT_mul(f.priv, f.range)

\* a key made after a 0 was returned and discarded
C2_Witness ==
    \E t \in Threads :
        LET f == th[t] IN
        /\ Returned(f, "generate") /\ Deterministic /\ f.ret = 1
        /\ Len(f.rets) >= 2 /\ f.rets[1] = 0 /\ f.priv >= 1

(* C3 (as stated) -- in a single-threaded process the counter never        *)
(* decreases and every block is derived with a counter value greater than  *)
(* that of every earlier block (so with a different salt), the blocks of a *)
(* later call included; the counter stays ahead of every value used.       *)
C3_AsStated ==
    \A p \in Procs :
        LET u == used[p] IN
        /\ \A i, j \in 1..Len(u) :
               i < j => (CounterLess(u[i].cnt, u[j].cnt) /\ u[i].salt # u[j].salt)
        /\ \A i \in 1..Len(u) : CounterLess(u[i].cnt, salt_cnt[p])

(* C4 (as stated) -- with two threads in EC_KEY_generate_key at once, no   *)
(* two keystream blocks are derived with the same salt.                    *)
C4_AsStated ==
    \A p \in Procs :
        \A i, j \in 1..Len(used[p]) : i < j => used[p][i].salt # used[p][j].salt

(* C7 (as stated) -- keypair atomicity.  When EC_KEY_generate_key returns  *)
(* on the deterministic path, the key holds both the new private scalar    *)
(* and the matching public point and the call returned 1, or it holds      *)
(* neither and the call returned 0.                                        *)
C7_AsStated ==
    \A t \in Threads :
        LET f == th[t] IN
        (Returned(f, "generate") /\ Deterministic) =>
            \/ f.ret = 1 /\ f.priv # NoScalar /\ f.pub = EC_POINT_mul(f.priv, f.range)
            \/ f.ret = 0 /\ f.priv = NoScalar /\ f.pub = NoPoint

(* C8 -- fallback.  With a configuration string shorter than 16 bytes a    *)
(* call of EC_KEY_generate_key invokes the true-random generator exactly   *)
(* once and returns its result, and enters neither bk_bnrand_range nor     *)
(* bk_bnrand nor derives a block; with 16 bytes or more the true-random    *)
(* generator is never invoked.                                             *)
C8_Fallback ==
    \A t \in Threads :
        LET f == th[t] IN
        f.entry = "generate" =>
            /\ ~Deterministic =>
                   /\ f.pc = "idle" /\ f.truerand = 1 /\ f.ret = f.trueret /\ f.site = 205
                   /\ f.nrange = 0 /\ f.nbnrand = 0 /\ f.nblocks = 0
                   /\ used[proc[t]] = <<>> /\ salt_cnt[proc[t]] = f.cnt0
            /\ Deterministic => (f.truerand = 0 /\ f.site # 205)

\* a call with a 15-byte string that returned the key of the true-random generator
C8_Witness ==
    \E t \in Threads :
        LET f == th[t] IN
        /\ Returned(f, "generate") /\ ~Deterministic
        /\ f.truerand = 1 /\ f.ret = 1 /\ f.priv >= 1

C10_AsStated ==
    \A t \in Threads :
        LET f == th[t] IN
        (Returned(f, "bits") /\ f.bits = 1 /\ f.top \in {0, 1}) =>
            (f.ret = 0 /\ f.site = 103)

(* C10 (amended) -- bk_bnrand with bits = 0 returns 1 only for top = -1    *)
(* and bottom = 0, and then the integer 0, and returns 0 from line 97 for  *)
(* every other policy; with bits = 1 and top = 1 it returns 0 from line    *)
(* 103; with bits = 1 and top = 0 it is not refused as a shape: it draws   *)
(* from the keystream and, when it returns 1, returns the integer 1.       *)
C10_IllegalShapes ==
    \A t \in Threads :
        LET f == th[t] IN
        Returned(f, "bits") =>
            /\ f.bits = 0 =>
                   /\ f.ret = 1 <=> (f.top = bk_BN_RAND_TOP_ANY /\ f.bottom = bk_BN_RAND_BOTTOM_ANY)
                   /\ f.ret = 1 => (f.r = 0 /\ f.site = 99)
                   /\ f.ret = 0 => f.site = 97
            /\ (f.bits = 1 /\ f.top = 1) => (f.ret = 0 /\ f.site = 103)
            /\ (f.bits = 1 /\ f.top = 0) =>
                   /\ f.site # 103
                   /\ f.ret = 1 => f.r = 1
                   /\ f.ret = 0 => f.site \in {56, 78, 111, 134}

\* one bit with the top bit forced: the call returned the integer 1
C10_Witness ==
    \E t \in Threads :
        LET f == th[t] IN
        Returned(f, "bits") /\ f.bits = 1 /\ f.top = 0 /\ f.ret = 1 /\ f.r = 1

\* a bk_bnrand called on its own that returned 1 after filling its buffer
Drew(f) == Returned(f, "bits") /\ f.ret = 1 /\ f.site = 138

(* C11 -- shape law.  Whenever bk_bnrand(rnd, bits, 1, 0) with bits >= 2   *)
(* returns 1, whatever the keystream holds, the value has exactly bits     *)
(* significant bits and its bits bits-1 and bits-2 are both 1; this        *)
(* includes bits = 9, where the top bit is alone in the first byte and the *)
(* second bit is bit 7 of the second byte.  Such a call returns 0 only     *)
(* from a failing library call or a short configuration string.            *)
C11_ShapeLaw ==
    \A t \in Threads :
        LET f == th[t] IN
        (Returned(f, "bits") /\ f.bits >= 2 /\ f.top = 1 /\ f.bottom = bk_BN_RAND_BOTTOM_ANY) =>
            /\ f.ret = 1 =>
                   /\ f.site = 138 /\ Len(f.fetched) = BytesOf(f.bits)
                   /\ BN_num_bits(f.r) = f.bits
                   /\ BN_is_bit_set(f.r, f.bits - 1) /\ BN_is_bit_set(f.r, f.bits - 2)
            /\ f.ret = 0 => f.site \in {56, 78, 111, 134}

\* nine bits from a buffer whose first byte was not 1 and whose second byte had bit 7 clear
C11_Witness ==
    \E t \in Threads :
        LET f == th[t] IN
        /\ Drew(f) /\ f.bits = 9 /\ f.top = 1 /\ f.bottom = bk_BN_RAND_BOTTOM_ANY
        /\ f.fetched[1] = 254 /\ f.fetched[2] < 128
        /\ BN_num_bits(f.r) = 9

(* C12 -- odd-forcing law.  Whenever bk_bnrand(rnd, bits, top, 1) with     *)
(* bits >= 1 and a top policy that line 102 lets through returns 1, the    *)
(* value is odd and equals the value the same buffer yields without the    *)
(* bottom policy with bit 0 set, no other bit changed; so with a top       *)
(* policy 0 or 1 it still has exactly bits significant bits.               *)
C12_OddForcing ==
    \A t \in Threads :
        LET f == th[t] IN
        (Drew(f) /\ f.bits >= 1 /\ f.bottom = 1) =>
            /\ ~IllegalShape(f.bits, f.top)
            /\ f.r % 2 = 1
            /\ f.r = BitOr(Shaped(f.fetched, f.bits, f.top, bk_BN_RAND_BOTTOM_ANY), 1)
            /\ f.top >= 0 => BN_num_bits(f.r) = f.bits

\* nine bits, two top bits and the bottom bit forced, from a buffer whose last byte was even
C12_Witness ==
    \E t \in Threads :
        LET f == th[t] IN
        /\ Drew(f) /\ f.bits = 9 /\ f.top = 1 /\ f.bottom = 1
        /\ f.fetched[2] % 2 = 0 /\ f.r % 2 = 1

\* c + n in 32-bit unsigned arithmetic
CounterAdd(c, n) == Counter((c.hi + (c.lo + n) \div Half) % Half, (c.lo + n) % Half)

RECURSIVE Concat(_)
Concat(ss) == IF ss = <<>> THEN <<>> ELSE Head(ss) \o Concat(Tail(ss))

\* ceil(len / 32)
BlocksFor(len) == (len + BlockLen - 1) \div BlockLen

(* C13 -- keystream block accounting.  With a configuration string of 16   *)
(* bytes or more, bk_RAND_bytes(buf, L) with L >= 1 in which PBKDF2 does   *)
(* not fail derives exactly ceil(L/32) blocks, salted with the counter     *)
(* values c, c+1, ... (c the counter on entry, + in the counter's 32-bit   *)
(* arithmetic), never more while it runs; it returns L, leaves in buf the  *)
(* concatenation of the blocks cut to L bytes and leaves the counter at    *)
(* c + ceil(L/32).  A bk_bnrand with bits >= 1 that reaches BN_bin2bn has  *)
(* asked for ceil(bits/8) bytes and advanced the counter by                *)
(* ceil(ceil(bits/8)/32).                                                  *)
C13_BlockAccounting ==
    \A t \in Threads :
        LET f == th[t]
            u == used[proc[t]]
            k == BlocksFor(f.buflen) IN
        /\ (f.entry = "bytes" /\ Deterministic) =>
              /\ f.nblocks <= k /\ Len(u) = f.nblocks
              /\ \A i \in 1..Len(u) :
                     /\ u[i].cnt = CounterAdd(f.cnt0, i - 1)
                     /\ u[i].salt = FormatSalt(SaltOf(brainkey1), CounterAdd(f.cnt0, i - 1))
              /\ f.pc \in {"load", "idle"} => salt_cnt[proc[t]] = CounterAdd(f.cnt0, f.nblocks)
              /\ (f.pc = "idle" /\ f.buflen >= 1 /\ f.site # 78) =>
                     /\ f.ret = f.buflen /\ f.site = 87
                     /\ f.nblocks = k /\ Len(f.outs) = k
                     /\ f.buf = SubSeq(Concat(f.outs), 1, f.buflen)
                     /\ salt_cnt[proc[t]] = CounterAdd(f.cnt0, k)
        /\ (Returned(f, "bits") /\ f.bits >= 1 /\ f.site \in {134, 138}) =>
              /\ f.buflen = BytesOf(f.bits)
              /\ f.nblocks = k /\ Len(u) = k
              /\ \A i \in 1..Len(u) : u[i].cnt = CounterAdd(f.cnt0, i - 1)
              /\ salt_cnt[proc[t]] = CounterAdd(f.cnt0, k)

\* 65 bytes from three blocks, the last cut to one byte, across a carry of the counter
C13_Witness ==
    \E t \in Threads :
        LET f == th[t] IN
        /\ Returned(f, "bytes") /\ f.ret = 65 /\ f.nblocks = 3
        /\ f.cnt0 = Counter(0, Half - 1) /\ salt_cnt[proc[t]] = Counter(1, 2)
        /\ f.outs[3][1] = 240 /\ f.buf[65] = 240 /\ f.outs[1][1] = 0

\* the return of line 78 was taken: PBKDF2 failed in the current call
DerivationFailed(f) == f.site = 78

(* C14 -- failure propagation without retry.  When PBKDF2 fails for a      *)
(* block (return 0 at line 78), the function called from outside, be it    *)
(* bk_RAND_bytes, bk_bnrand, bk_bnrand_range or EC_KEY_generate_key on the *)
(* deterministic path, returns 0 without reading salt_cnt again: the       *)
(* failing block is the last block of the call and its draw the last call  *)
(* of bk_bnrand; the true-random generator is not invoked and the key has  *)
(* neither a private scalar nor a public point.                            *)
C14_FailurePropagation ==
    \A t \in Threads :
        LET f == th[t]
            u == used[proc[t]] IN
        DerivationFailed(f) =>
            /\ f.pc = "idle" /\ f.ret = 0
            /\ f.nblocks >= 1 /\ Len(u) >= f.nblocks
            /\ u[Len(u)].call = f.calls /\ u[Len(u)].cnt = CounterAdd(f.cnt0, f.nblocks - 1)
            /\ salt_cnt[proc[t]] = CounterAdd(f.cnt0, f.nblocks)
            /\ f.entry # "bytes" => f.nbnrand = f.nblocks
            /\ f.entry = "range" => f.ndraws = f.nblocks - 1
            /\ f.truerand = 0 /\ f.priv = NoScalar /\ f.pub = NoPoint
            /\ \A i \in 1..Len(f.rets) : f.rets[i] = 0

\* EC_KEY_generate_key failed on PBKDF2 in its second block
C14_Witness ==
    \E t \in Threads :
        LET f == th[t] IN
        /\ Returned(f, "generate") /\ DerivationFailed(f)
        /\ f.nblocks = 2 /\ f.ret = 0 /\ f.priv = NoScalar

(* C15 -- top-bit masking.  Whenever bk_bnrand(rnd, bits, -1, 0) with      *)
(* bits >= 1 returns 1, the value is in [0, 2^bits) and is the big-endian  *)
(* value of the ceil(bits/8) bytes fetched with the bits at positions      *)
(* >= bits cleared and no other bit altered; whenever                      *)
(* bk_bnrand(rnd, bits, 0, 0) with bits >= 2 returns 1, the value has      *)
(* exactly bits significant bits (the fetched bits below the top bit are   *)
(* kept).                                                                  *)
C15_TopBitMasking ==
    \A t \in Threads :
        LET f == th[t]
            raw == BN_bin2bn(f.fetched) IN
        (Drew(f) /\ f.bits >= 1 /\ f.bottom = bk_BN_RAND_BOTTOM_ANY) =>
            /\ Len(f.fetched) = BytesOf(f.bits)
            /\ f.top = bk_BN_RAND_TOP_ANY =>
                   /\ 0 <= f.r /\ f.r < 2 ^ f.bits
                   /\ f.r = raw % (2 ^ f.bits)
            /\ (f.top = 0 /\ f.bits >= 2) =>
                   /\ BN_num_bits(f.r) = f.bits
                   /\ f.r = 2 ^ (f.bits - 1) + (raw % (2 ^ (f.bits - 1)))

\* nine bits of a buffer whose first byte had all its bits set
C15_Witness ==
    \E t \in Threads :
        LET f == th[t] IN
        /\ Drew(f) /\ f.bits = 9 /\ f.top = bk_BN_RAND_TOP_ANY /\ f.bottom = bk_BN_RAND_BOTTOM_ANY
        /\ f.fetched = <<255, 129>> /\ f.r = 256 + 129

\* range has n >= 2 bits and its bits n-2 and n-3 are zero (bit n-3 is absent for n = 2)
Shape100(range) ==
    LET n == BN_num_bits(range) IN
    /\ n >= 2
    /\ (range \div (2 ^ (n - 2))) % 2 = 0
    /\ n >= 3 => (range \div (2 ^ (n - 3))) % 2 = 0

\* the raw values of n+1 bits that one draw for the range accepts
Accepted(range) ==
    { d \in 0..(2 ^ (BN_num_bits(range) + 1) - 1) : ~Rejected(Reduce(d, range), range) }

(* C16 -- acceptance ratio of the 100... path.  bk_bnrand_range takes the  *)
(* path of lines 162-183 exactly for the ranges of n >= 2 bits whose bits  *)
(* n-2 and n-3 are zero (n = 2 included); for such a range it draws n+1    *)
(* bits, 3*range <= 2^(n+1), one draw is accepted exactly when its raw     *)
(* value is below 3*range, and so at least 3/4 of the 2^(n+1) raw values   *)
(* are accepted.                                                           *)
C16_AcceptanceRatio ==
    \A t \in Threads :
        LET f == th[t]
            range == f.range
            n == BN_num_bits(range) IN
        (f.entry = "range" /\ range >= 2) =>
            /\ Is100(range) <=> Shape100(range)
            /\ Shape100(range) =>
                   /\ DrawBits(range) = n + 1
                   /\ f.pc \in {"load", "store"} => f.bits = n + 1
                   /\ 3 * range <= 2 ^ (n + 1)
                   /\ Accepted(range) = 0..(3 * range - 1)
                   /\ 4 * Cardinality(Accepted(range)) >= 3 * (2 ^ (n + 1))
                   /\ (f.pc = "idle" /\ f.ret = 1) => f.raw \in Accepted(range)
                   /\ (f.pc = "load" /\ f.ndraws >= 1) => f.raw \notin Accepted(range)

\* range 9 = 1001: a draw of 27 or more was rejected, then a draw of 18 or more accepted
C16_Witness ==
    \E t \in Threads :
        LET f == th[t] IN
        /\ Returned(f, "range") /\ f.range = 9 /\ f.ret = 1
        /\ f.ndraws = 2 /\ f.raw >= 18 /\ f.raw < 27

\* the calls that return before bk_RAND_bytes reaches its loop
ShortCircuit(f) ==
    \/ f.entry = "range" /\ f.range <= 1
    \/ f.entry = "bits" /\ (f.bits <= 0 \/ (f.bits = 1 /\ f.top = 1))
    \/ f.entry \in {"bytes", "bits", "range", "generate"} /\ ~Deterministic

(* C17 -- calls that short-circuit consume no keystream.                   *)
(* bk_bnrand_range with range <= 0 or range = 1, bk_bnrand with bits = 0,  *)
(* with bits < 0 or with bits = 1 and top = 1, every call made while the   *)
(* configuration string is shorter than 16 bytes (bk_RAND_bytes returns 0  *)
(* at line 56) and EC_KEY_generate_key on the fallback path return to      *)
(* their caller without deriving a block: salt_cnt is what it was on       *)
(* entry and no salt was used.                                             *)
C17_ShortCircuit ==
    \A t \in Threads :
        LET f == th[t]
            u == used[proc[t]] IN
        ShortCircuit(f) =>
            /\ f.pc = "idle"
            /\ salt_cnt[proc[t]] = f.cnt0
            /\ f.nblocks = 0
            /\ \A i \in 1..Len(u) : u[i].call # f.calls
            /\ (f.entry = "range" /\ f.range <= 0) => (f.ret = 0 /\ f.site = 149)
            /\ (f.entry = "range" /\ f.range = 1) => (f.ret = 1 /\ f.r = 0 /\ f.site = 198)
            /\ (f.entry = "bits" /\ f.bits = 0) => f.site \in {97, 99}
            /\ (f.entry = "bits" /\ (f.bits < 0 \/ (f.bits = 1 /\ f.top = 1))) =>
                   (f.ret = 0 /\ f.site = 103)
            /\ (f.entry = "bytes" /\ ~Deterministic) => (f.ret = 0 /\ f.site = 56)
            /\ (f.entry = "generate" /\ ~Deterministic) => f.site = 205

\* after a call that derived a block, bk_bnrand_range(r, 1) left the counter at 1
C17_Witness ==
    \E t \in Threads :
        LET f == th[t] IN
        /\ Returned(f, "range") /\ f.range = 1 /\ f.ret = 1 /\ f.calls = 2
        /\ f.cnt0 = Counter(0, 1) /\ salt_cnt[proc[t]] = Counter(0, 1)
        /\ Len(used[proc[t]]) = 1

\* the blocks that are followed have all been derived
BlocksSpent == ~BlocksBelow(MaxBlocks)

(* C18 (as stated) -- on the deterministic path every call of              *)
(* EC_KEY_generate_key for a group of order >= 1 eventually returns (a     *)
(* call that goes on deriving blocks is followed for MaxBlocks blocks).    *)
C18_AsStated ==
    \A t \in Threads :
        (th[t].entry = "generate" /\ Deterministic /\ th[t].range >= 1)
            ~> (th[t].pc = "idle" \/ BlocksSpent)

(* C18 (amended) -- on the deterministic path a call of                    *)
(* EC_KEY_generate_key for a group of order >= 2 that has not returned     *)
(* always goes on to derive another block or to return: each               *)
(* bk_bnrand_range inside it has count = 100 - draws >= 1 left while it    *)
(* runs, and the do-while repeats only after a returned 0; so the call     *)
(* returns unless the keystream goes on yielding draws that reduce to      *)
(* zero.  For a group of order 1 bk_bnrand_range returns 0 at once,        *)
(* without a draw, every time, and the call returns only if BN_new or      *)
(* EC_GROUP_get_order fails: the do-while of lines 219-222 does not end.   *)
C18_Termination ==
    /\ [](\A t \in Threads :
            LET f == th[t] IN
            (f.entry = "generate" /\ Deterministic) =>
                /\ f.ndraws <= RangeAttempts
                /\ f.pc \in {"load", "store"} =>
                       /\ f.range >= 2
                       /\ f.count = RangeAttempts - f.ndraws /\ f.count >= 1
                       /\ \A i \in 1..Len(f.rets) : f.rets[i] = 0
                /\ (f.range = 1 /\ f.pc = "idle") => (f.ret = 0 /\ f.site \in {214, 217})
                /\ (f.range = 1 /\ f.pc # "idle") => (f.pc \in {"spin", "again"} /\ f.nblocks = 0)
                /\ f.pc \in {"spin", "again"} => f.range = 1)
    /\ \A t \in Threads :
           (th[t].entry = "generate" /\ Deterministic /\ th[t].range >= 2)
               ~> (th[t].pc = "idle" \/ BlocksSpent)

\* a key made from the third block of the call, after a rejected draw and a discarded zero
C18_Witness ==
    \E t \in Threads :
        LET f == th[t] IN
        /\ Returned(f, "generate") /\ Deterministic /\ f.range >= 2 /\ f.ret = 1
        /\ f.rets[1] = 0 /\ f.nblocks = 3 /\ f.nrange = 2
====
